---- MODULE Spec2Model ----
(***************************************************************************)
(* Model of the hydration dashboard's analysis pipeline                     *)
(* (hydration_dashboard.py, two variants):                                  *)
(*   "full" : oT-Based Smart Hydration Tracking System (Firebase variant)   *)
(*   "lite" : IoT-Based Smart Hydration Tracking System (Windows variant)   *)
(*                                                                         *)
(* raised is the exception that reached the caller of the last call        *)
(* ("none" when it returned); none of the modelled methods raises.          *)
(* dashboard holds the fields of the HydrationDashboard object; rerun holds *)
(* the results of a second analyze / forecast call on the same frame.       *)
(*                                                                         *)
(* Numbers are pandas/numpy float64 values.  They are modelled as extended *)
(* rationals [n, d]: d > 0 is the rational n/d in lowest terms, d = 0 is    *)
(* NaN (n = 0), +inf (n = 1) or -inf (n = -1).                              *)
(***************************************************************************)
EXTENDS Integers, Sequences, FiniteSets, TLC

VARIABLES variant, has_statsmodels,
          readings, data, analysis, forecast, recommendations,
          fits, forecast_days,
          user_ids, user_idx, pc, log, raised,
          dashboard, rerun

vars == <<variant, has_statsmodels, readings, data, analysis, forecast,
          recommendations, fits, forecast_days, user_ids, user_idx, pc, log, raised,
          dashboard, rerun>>

(***************************************************************************)
(* Bounds of the model                                                      *)
(***************************************************************************)
MaxRows == 3
MaxDay == 2
PadRows == 47
MaxForecastDays == 2

(***************************************************************************)
(* float64 arithmetic as extended rationals                                 *)
(***************************************************************************)
Abs(x) == IF x < 0 THEN -x ELSE x

Sign(x) == IF x < 0 THEN -1 ELSE IF x > 0 THEN 1 ELSE 0

RECURSIVE GCD(_, _)
GCD(a, b) == IF b = 0 THEN a ELSE GCD(b, a % b)

NaN == [n |-> 0, d |-> 0]

Rat(n, d) ==
    IF d = 0 THEN [n |-> Sign(n), d |-> 0]
    ELSE LET g == GCD(Abs(n), Abs(d))
         IN  [n |-> Sign(d) * (n \div g), d |-> Abs(d) \div g]

Num(i) == [n |-> i, d |-> 1]

IsNaN(x) == x.d = 0 /\ x.n = 0

RNeg(x) == [n |-> -x.n, d |-> x.d]

RAdd(x, y) ==
    IF IsNaN(x) \/ IsNaN(y) THEN NaN
    ELSE IF x.d = 0 /\ y.d = 0 THEN (IF x.n = y.n THEN x ELSE NaN)
    ELSE IF x.d = 0 THEN x
    ELSE IF y.d = 0 THEN y
    ELSE Rat(x.n * y.d + y.n * x.d, x.d * y.d)

RSub(x, y) == RAdd(x, RNeg(y))

RMul(x, y) ==
    IF IsNaN(x) \/ IsNaN(y) THEN NaN
    ELSE IF x.d = 0 \/ y.d = 0
         THEN [n |-> Sign(x.n) * Sign(y.n), d |-> 0]
    ELSE Rat(x.n * y.n, x.d * y.d)

RDiv(x, y) ==
    IF IsNaN(x) \/ IsNaN(y) THEN NaN
    ELSE IF x.d = 0 /\ y.d = 0 THEN NaN
    ELSE IF x.d = 0 THEN [n |-> x.n * (IF y.n < 0 THEN -1 ELSE 1), d |-> 0]
    ELSE IF y.d = 0 THEN Num(0)
    ELSE Rat(x.n * y.d, x.d * y.n)

\* comparisons: every comparison with NaN is False
RLt(x, y) ==
    IF IsNaN(x) \/ IsNaN(y) THEN FALSE
    ELSE IF x.d = 0 \/ y.d = 0
         THEN (IF x.d = 0 /\ y.d = 0 THEN x.n < y.n
               ELSE IF x.d = 0 THEN x.n < 0
               ELSE y.n > 0)
    ELSE x.n * y.d < y.n * x.d

RGt(x, y) == RLt(y, x)

RGe(x, y) == ~IsNaN(x) /\ ~IsNaN(y) /\ ~RLt(x, y)

RLe(x, y) == RGe(y, x)

\* Series.sum(): NaN entries are skipped, the empty sum is 0
RECURSIVE SumRange(_, _, _)
SumRange(s, lo, hi) ==
    IF lo > hi THEN Num(0)
    ELSE IF lo = hi THEN (IF IsNaN(s[lo]) THEN Num(0) ELSE s[lo])
    ELSE LET mid == (lo + hi) \div 2
         IN  RAdd(SumRange(s, lo, mid), SumRange(s, mid + 1, hi))

SumSkipNa(s) == SumRange(s, 1, Len(s))

\* Series.mean() of a series without NaN entries
Mean(s) == RDiv(SumSkipNa(s), Num(Len(s)))

(***************************************************************************)
(* Readings: what the source adapter hands to the event extraction.         *)
(* A reading is [day, hour, level]; day counts calendar days, day 0 being a *)
(* Monday.  Short series are enumerated in full; a long series (one that    *)
(* passes the 48-row gate of the forecast) is a short one whose last        *)
(* reading is repeated PadRows times.                                       *)
(***************************************************************************)
Levels == {0, 95, 100}

Hours == {9, 19}

Days == 0..MaxDay

Reading == [day : Days, hour : Hours, level : Levels]

TimeLt(a, b) == a.day < b.day \/ (a.day = b.day /\ a.hour < b.hour)

\* the readings of a short series are taken at increasing times
IsSorted(s) == \A i \in 1..(Len(s) - 1) : TimeLt(s[i], s[i + 1])

RowSeqs == UNION {[1..k -> Reading] : k \in 0..MaxRows}

ShortSeqs == {s \in RowSeqs : IsSorted(s)}

\* the reading sequence denoted by rows r followed by p repeats of the last one
Expand(r, p) == r \o [i \in 1..p |-> r[Len(r)]]

\* long series: morning readings of a full or empty bottle, the last one repeated
LongSeqs ==
    {Expand(r, PadRows) :
        r \in {s \in ShortSeqs : /\ s # <<>>
                                 /\ \A i \in 1..Len(s) : s[i].hour = 9 /\ s[i].level # 95}}

\* two readings handed over in the wrong order: the second is older than the first
DisorderedSeqs == {s \in RowSeqs : Len(s) = 2 /\ TimeLt(s[2], s[1])}

\* three days of readings at 8, 12, 16 and 20 h: the bottle is full at 8 h,
\* empty at 12 h, refilled by 16 h, empty at 20 h and refilled overnight, so
\* the level drops by 2 x 1000 ml on each day
ScenarioA ==
    [i \in 1..12 |-> [day |-> (i - 1) \div 4,
                      hour |-> 8 + 4 * ((i - 1) % 4),
                      level |-> IF i % 2 = 1 THEN 100 ELSE 0]]

\* the scenario as it is, and followed by repeats of its last reading
ScenarioSeqs == {ScenarioA, Expand(ScenarioA, PadRows)}

ReadingSeqs == ShortSeqs \cup LongSeqs \cup DisorderedSeqs \cup ScenarioSeqs

(***************************************************************************)
(* pandas values                                                            *)
(***************************************************************************)
\* pd.DataFrame(): no rows, no columns
EmptyFrame == [rows |-> <<>>, columns |-> {}]

\* DataFrame.empty
IsEmptyFrame(df) == df.rows = <<>> \/ df.columns = {}

\* the empty dict {}
EmptyDict == [k \in {} |-> 0]

\* a value that has not been computed yet
None == [none |-> TRUE]

\* the elements of a finite set of integers in ascending order
RECURSIVE SortedSeq(_)
SortedSeq(S) ==
    IF S = {} THEN <<>>
    ELSE LET m == CHOOSE x \in S : \A y \in S : x <= y
         IN  <<m>> \o SortedSeq(S \ {m})

\* Series.clip(lower=0): NaN stays NaN
ClipLower0(x) == IF IsNaN(x) THEN NaN ELSE IF RLt(x, Num(0)) THEN Num(0) ELSE x

\* Series.diff(): the first element has no predecessor and is NaN
Diff(s, i) == IF i = 1 THEN NaN ELSE RSub(s[i], s[i - 1])

(***************************************************************************)
(* Event extraction (the tail of _generate_simulated_data)                  *)
(***************************************************************************)
DRINKING_EVENT_ML == 50

ML_PER_PERCENT == 10

\* volumes = [level * 10 for level in water_levels]
Volumes(rd) == [i \in 1..Len(rd) |-> Num(rd[i].level * ML_PER_PERCENT)]

\* data['consumption_ml'] = -data['volume_ml'].diff().clip(lower=0)
\* (the unary minus applies to the clipped difference)
ConsumptionMl(vol, i) == RNeg(ClipLower0(Diff(vol, i)))

\* data['is_drinking_event'] = data['consumption_ml'] > 50
\* the threshold applied to the magnitude of the change
IsDrinkingEvent_Magnitude(c) == RGt([n |-> Abs(c.n), d |-> c.d], Num(DRINKING_EVENT_ML))

IsDrinkingEvent(c) == RGt(c, Num(DRINKING_EVENT_ML))

ExtractedColumns == {"timestamp", "water_level_percent", "volume_ml", "user_id",
                     "device_id", "consumption_ml", "is_drinking_event", "date",
                     "daily_consumption"}

ExtractEvents(rd) ==
    LET vol == Volumes(rd) IN
    [rows |-> [i \in 1..Len(rd) |->
                 [day |-> rd[i].day,
                  hour |-> rd[i].hour,
                  water_level_percent |-> rd[i].level,
                  volume_ml |-> vol[i],
                  consumption_ml |-> ConsumptionMl(vol, i),
                  is_drinking_event |-> IsDrinkingEvent(ConsumptionMl(vol, i)),
                  date |-> rd[i].day]],
     columns |-> ExtractedColumns]

(***************************************************************************)
(* analyze_user_patterns                                                    *)
(***************************************************************************)
\* the grouping columns: 'date', 'hour' (timestamp.dt.hour) and
\* 'day_of_week' (timestamp.dt.dayofweek, 0 = Monday)
KeyOf(r, key) ==
    IF key = "date" THEN r.date
    ELSE IF key = "hour" THEN r.hour
    ELSE r.day % 7

\* data.groupby(key)['consumption_ml'].sum(): one entry per key value present,
\* in ascending key order
GroupKeys(rows, key) == SortedSeq({KeyOf(rows[i], key) : i \in 1..Len(rows)})

GroupSum(rows, key, k) ==
    SumSkipNa([i \in 1..Len(rows) |->
                 IF KeyOf(rows[i], key) = k THEN rows[i].consumption_ml ELSE NaN])

GroupCount(rows, key, k) ==
    Cardinality({i \in 1..Len(rows) : KeyOf(rows[i], key) = k /\ rows[i].is_drinking_event})

\* data.groupby('date').agg({'consumption_ml': 'sum', 'is_drinking_event': 'sum'})
DailyStats(rows) ==
    LET ks == GroupKeys(rows, "date") IN
    [j \in 1..Len(ks) |->
       [date |-> ks[j],
        consumption_ml |-> GroupSum(rows, "date", ks[j]),
        drinking_events |-> GroupCount(rows, "date", ks[j])]]

DailyConsumption(rows) ==
    LET ds == DailyStats(rows) IN [j \in 1..Len(ds) |-> ds[j].consumption_ml]

\* Series.max() / Series.min()
SeriesMax(s) == CHOOSE x \in {s[i] : i \in 1..Len(s)} : \A i \in 1..Len(s) : RGe(x, s[i])

SeriesMin(s) == CHOOSE x \in {s[i] : i \in 1..Len(s)} : \A i \in 1..Len(s) : RLe(x, s[i])

\* the label of the last occurrence of the maximum
IdxMax_Last(keys, vals) ==
    LET i == CHOOSE i \in 1..Len(vals) :
                 /\ \A j \in 1..Len(vals) : RGe(vals[i], vals[j])
                 /\ \A j \in (i + 1)..Len(vals) : RLt(vals[j], vals[i])
    IN  keys[i]

\* Series.idxmax(): the label of the first occurrence of the maximum
IdxMax(keys, vals) ==
    LET i == CHOOSE i \in 1..Len(vals) :
                 /\ \A j \in 1..Len(vals) : RGe(vals[i], vals[j])
                 /\ \A j \in 1..(i - 1) : RLt(vals[j], vals[i])
    IN  keys[i]

PeakOf(rows, key) ==
    LET ks == GroupKeys(rows, key) IN
    IdxMax(ks, [j \in 1..Len(ks) |-> GroupSum(rows, key, ks[j])])

\* Series.var() with ddof = 1; the variance of a single value is NaN (0/0)
SampleVar(s) ==
    LET m == Mean(s) IN
    RDiv(SumSkipNa([i \in 1..Len(s) |-> RMul(RSub(s[i], m), RSub(s[i], m))]),
         Num(Len(s) - 1))

\* Series.std(): the square root of the variance is kept symbolic
Std(s) == [sqrt_of |-> SampleVar(s)]

\* the float 1 - sgn * sqrt(q); q = NaN is NaN, q = +inf is -inf (sgn = 1)
Score(sgn, q) == [sgn |-> IF q = Num(0) \/ IsNaN(q) THEN 0 ELSE sgn, q |-> q]

\* 1 - (std / mean)
OneMinusRatio(std, mean) ==
    LET v == std.sqrt_of IN
    IF IsNaN(v) \/ IsNaN(mean) THEN Score(0, NaN)
    ELSE IF mean = Num(0)
         THEN (IF v = Num(0) THEN Score(0, NaN) ELSE Score(1, [n |-> 1, d |-> 0]))
    ELSE Score(Sign(mean.n), RDiv(v, RMul(mean, mean)))

\* the score of a float c
ScoreOf(c) ==
    IF IsNaN(c) THEN Score(0, NaN)
    ELSE IF RLe(c, Num(1)) THEN Score(1, RMul(RSub(Num(1), c), RSub(Num(1), c)))
    ELSE Score(-1, RMul(RSub(c, Num(1)), RSub(c, Num(1))))

\* score < t for a finite float t
ScoreLt(s, t) ==
    LET c == RSub(Num(1), t) IN
    IF IsNaN(s.q) THEN FALSE
    ELSE IF s.q.d = 0 THEN s.sgn = 1
    ELSE IF s.sgn >= 0 THEN RLt(c, Num(0)) \/ RGt(s.q, RMul(c, c))
    ELSE RLt(c, Num(0)) /\ RLt(s.q, RMul(c, c))

\* the analysis dict of a non-empty frame
AnalysisDict(user_id, df) ==
    LET dc == DailyConsumption(df.rows)
        ds == DailyStats(df.rows)
    IN  [user_id |-> user_id,
         total_consumption_ml |->
             SumSkipNa([i \in 1..Len(df.rows) |-> df.rows[i].consumption_ml]),
         avg_daily_consumption_ml |-> Mean(dc),
         std_daily_consumption_ml |-> Std(dc),
         max_daily_consumption_ml |-> SeriesMax(dc),
         min_daily_consumption_ml |-> SeriesMin(dc),
         avg_drinking_events_per_day |->
             Mean([j \in 1..Len(ds) |-> Num(ds[j].drinking_events)]),
         peak_hydration_hour |-> PeakOf(df.rows, "hour"),
         peak_hydration_day |-> PeakOf(df.rows, "day_of_week"),
         consistency_score |-> OneMinusRatio(Std(dc), Mean(dc)),
         days_analyzed |-> Len(ds)]

\* a zero-filled analysis instead of the empty dict
AnalyzeUserPatterns_ZeroFilled(user_id, df) ==
    IF IsEmptyFrame(df)
    THEN [user_id |-> user_id,
          total_consumption_ml |-> Num(0),
          avg_daily_consumption_ml |-> Num(0),
          std_daily_consumption_ml |-> [sqrt_of |-> Num(0)],
          max_daily_consumption_ml |-> Num(0),
          min_daily_consumption_ml |-> Num(0),
          avg_drinking_events_per_day |-> Num(0),
          peak_hydration_hour |-> 0,
          peak_hydration_day |-> 0,
          consistency_score |-> Score(0, Num(0)),
          days_analyzed |-> 0]
    ELSE AnalysisDict(user_id, df)

\* if data.empty: return {}
AnalyzeUserPatterns(user_id, df) ==
    IF IsEmptyFrame(df) THEN EmptyDict ELSE AnalysisDict(user_id, df)

\* the columns analyze_user_patterns assigns on the caller's frame
AnalyzeColumns == {"hour", "day_of_week"}

(***************************************************************************)
(* forecast_consumption                                                     *)
(***************************************************************************)
Variants == {"full", "lite"}

\* __init__: the fields of a new dashboard (only the Firebase variant has
\* devices_data)
NewDashboard(v) ==
    IF v = "full"
    THEN [users_data |-> EmptyDict, devices_data |-> EmptyDict, forecasts |-> EmptyDict]
    ELSE [users_data |-> EmptyDict, forecasts |-> EmptyDict]

MIN_ROWS == 48

\* what a statsmodels fit hands back: failure, or forecast_days values
FitValues == {1500, 1700}

FitFailed == [ok |-> FALSE, values |-> <<>>]

\* the series a fit may forecast: any series for short horizons, a constant
\* series for longer ones
FitSeries(fd) ==
    IF fd <= MaxForecastDays THEN [1..fd -> FitValues]
    ELSE {[i \in 1..fd |-> v] : v \in FitValues}

FitResults(fd) == {FitFailed} \cup {[ok |-> TRUE, values |-> v] : v \in FitSeries(fd)}

NoFits == [hw |-> FitFailed, arima |-> FitFailed]

\* the fits each variant attempts: the lite variant has no Holt-Winters fit and
\* attempts ARIMA only when statsmodels could be imported
FitOutcomes(v, sm, fd) ==
    IF v = "full"
    THEN {[hw |-> h, arima |-> a] : h \in FitResults(fd), a \in FitResults(fd)}
    ELSE IF sm THEN {[hw |-> FitFailed, arima |-> a] : a \in FitResults(fd)}
    ELSE {NoFits}

\* the flat forecast one point short
FlatMean_Short(dc, fd) == [i \in 1..(fd - 1) |-> Mean(dc)]

\* pd.Series([daily_consumption.mean()] * forecast_days, ...)
FlatMean(dc, fd) == [i \in 1..fd |-> Mean(dc)]

\* (forecast_hw + forecast_arima) / 2
Ensemble(h, a) == [i \in 1..Len(h) |-> RDiv(RAdd(Num(h[i]), Num(a[i])), Num(2))]

Single(f) == [i \in 1..Len(f) |-> Num(f[i])]

\* the ensemble branch missing: the first fit that succeeded is used alone
ForecastValues_NoEnsemble(dc, f, fd) ==
    IF f.hw.ok THEN Single(f.hw.values)
    ELSE IF f.arima.ok THEN Single(f.arima.values)
    ELSE FlatMean(dc, fd)

ForecastValues(dc, f, fd) ==
    IF f.hw.ok /\ f.arima.ok THEN Ensemble(f.hw.values, f.arima.values)
    ELSE IF f.hw.ok THEN Single(f.hw.values)
    ELSE IF f.arima.ok THEN Single(f.arima.values)
    ELSE FlatMean(dc, fd)

LOWER_FACTOR == Rat(8, 10)

UPPER_FACTOR == Rat(12, 10)

ForecastColumns == {"date", "forecasted_consumption_ml", "lower_bound", "upper_bound"}

\* the two factors swapped
ForecastFrame_Swapped(last_date, fv) ==
    [rows |-> [i \in 1..Len(fv) |->
                 [date |-> last_date + i,
                  forecasted_consumption_ml |-> fv[i],
                  lower_bound |-> RMul(fv[i], UPPER_FACTOR),
                  upper_bound |-> RMul(fv[i], LOWER_FACTOR)]],
     columns |-> ForecastColumns]

\* the forecast frame; its dates are the days after the last observed date
ForecastFrame(last_date, fv) ==
    [rows |-> [i \in 1..Len(fv) |->
                 [date |-> last_date + i,
                  forecasted_consumption_ml |-> fv[i],
                  lower_bound |-> RMul(fv[i], LOWER_FACTOR),
                  upper_bound |-> RMul(fv[i], UPPER_FACTOR)]],
     columns |-> ForecastColumns]

HasEnoughRows(df) == Len(df.rows) >= MIN_ROWS

ForecastConsumption(df, fd, f) ==
    IF ~HasEnoughRows(df) THEN EmptyFrame
    ELSE LET ds == DailyStats(df.rows)
             dc == DailyConsumption(df.rows)
         IN  ForecastFrame(ds[Len(ds)].date, ForecastValues(dc, f, fd))

(***************************************************************************)
(* generate_recommendations                                                 *)
(***************************************************************************)
RECOMMENDED_DAILY_ML == 2000

Rec(priority, category) == [priority |-> priority, category |-> category]

\* the boundaries taken with <= instead of <
IntakeRule_Inclusive(ratio) ==
    IF RLe(ratio, Rat(7, 10)) THEN <<Rec("HIGH", "Increase Intake")>>
    ELSE IF RLe(ratio, Rat(9, 10)) THEN <<Rec("MEDIUM", "Minor Adjustment")>>
    ELSE <<Rec("INFO", "Great Job!")>>

IntakeRule(ratio) ==
    IF RLt(ratio, Rat(7, 10)) THEN <<Rec("HIGH", "Increase Intake")>>
    ELSE IF RLt(ratio, Rat(9, 10)) THEN <<Rec("MEDIUM", "Minor Adjustment")>>
    ELSE <<Rec("INFO", "Great Job!")>>

\* the rule with an inclusive threshold: a score of exactly 0.7 fires too
ConsistencyRule_Inclusive(a) ==
    IF ScoreLt(a.consistency_score, Rat(7, 10)) \/ a.consistency_score = ScoreOf(Rat(7, 10))
    THEN <<Rec("MEDIUM", "Improve Consistency")>> ELSE <<>>

ConsistencyRule(a) ==
    IF ScoreLt(a.consistency_score, Rat(7, 10))
    THEN <<Rec("MEDIUM", "Improve Consistency")>> ELSE <<>>

\* only the full variant has the timing rule
TimingRule(v, a) ==
    IF v = "full" /\ a.peak_hydration_hour > 18
    THEN <<Rec("LOW", "Timing Optimization")>> ELSE <<>>

ForecastMean(fc) ==
    Mean([i \in 1..Len(fc.rows) |-> fc.rows[i].forecasted_consumption_ml])

\* only the full variant has the forecast rule
ShortfallRule(v, fc) ==
    IF v = "full" /\ ~IsEmptyFrame(fc)
          /\ RLt(ForecastMean(fc), RMul(Num(RECOMMENDED_DAILY_ML), Rat(8, 10)))
    THEN <<Rec("MEDIUM", "Projected Shortfall")>> ELSE <<>>

\* the list sorted by priority: MEDIUM entries before the LOW one
RecommendationList_ByPriority(v, a, fc, ratio) ==
    IntakeRule(ratio) \o ConsistencyRule(a) \o ShortfallRule(v, fc) \o TimingRule(v, a)

\* the rules append to the list in this order
RecommendationList(v, a, fc, ratio) ==
    IntakeRule(ratio) \o ConsistencyRule(a) \o TimingRule(v, a) \o ShortfallRule(v, fc)

\* the early return: the full variant also gives up on an empty forecast
RecommendGivesUp(v, a, fc) ==
    a = EmptyDict \/ (v = "full" /\ IsEmptyFrame(fc))

\* the goal met only strictly above 90 % of the recommended intake
MeetingGoal_Strict(performance_ratio) == RGt(performance_ratio, Rat(9, 10))

MeetingGoal(performance_ratio) == RGe(performance_ratio, Rat(9, 10))

GenerateRecommendations(v, a, fc) ==
    IF RecommendGivesUp(v, a, fc) THEN EmptyDict
    ELSE LET current_avg == a.avg_daily_consumption_ml
             performance_ratio == RDiv(current_avg, Num(RECOMMENDED_DAILY_ML))
         IN  [user_id |-> a.user_id,
              current_daily_avg_ml |-> current_avg,
              recommended_daily_ml |-> RECOMMENDED_DAILY_ML,
              performance_ratio |-> performance_ratio,
              meeting_goal |-> MeetingGoal(performance_ratio),
              recommendations |-> RecommendationList(v, a, fc, performance_ratio)]

(***************************************************************************)
(* The public methods called one after the other on a reading sequence, or  *)
(* generate_recommendations called on a given analysis and forecast.        *)
(***************************************************************************)
UnitUser == "USER_001"

\* an analysis dict as analyze_user_patterns builds it
AnalysisOf(avg, score, hour) ==
    [user_id |-> UnitUser,
     total_consumption_ml |-> avg,
     avg_daily_consumption_ml |-> avg,
     std_daily_consumption_ml |-> [sqrt_of |-> Num(0)],
     max_daily_consumption_ml |-> avg,
     min_daily_consumption_ml |-> avg,
     avg_drinking_events_per_day |-> Num(0),
     peak_hydration_hour |-> hour,
     peak_hydration_day |-> 0,
     consistency_score |-> score,
     days_analyzed |-> 1]

AvgInputs == {Num(-900), Num(0), Num(1399), Num(1400), Num(1799), Num(1800), Num(3000)}

ScoreInputs == {ScoreOf(Rat(69, 100)), ScoreOf(Rat(7, 10)), ScoreOf(Num(1)), ScoreOf(NaN)}

HourInputs == {18, 19}

AnalysisInputs ==
    {EmptyDict} \cup
    {AnalysisOf(a, c, h) : a \in AvgInputs, c \in ScoreInputs, h \in HourInputs}

ForecastInputs ==
    {EmptyFrame} \cup
    {ForecastFrame(0, Single(v)) : v \in {<<1600>>, <<1500, 1700>>, <<1500, 1600>>, <<2000>>}}

InitUnit ==
    /\ variant \in Variants
    /\ has_statsmodels \in (IF variant = "full" THEN {TRUE} ELSE BOOLEAN)
    /\ \/ /\ readings \in ReadingSeqs
          /\ analysis = None
          /\ forecast = None
          /\ pc = "extract"
       \/ /\ readings = <<>>
          /\ analysis \in AnalysisInputs
          /\ forecast \in ForecastInputs
          /\ has_statsmodels
          /\ pc = "recommend"
    /\ data = None
    /\ recommendations = None
    /\ fits = NoFits
    /\ forecast_days = 0
    /\ user_ids = <<>>
    /\ user_idx = 0
    /\ log = <<>>
    /\ raised = "none"
    /\ dashboard = NewDashboard(variant)
    /\ rerun = None

\* the analysis drops the first sample (the one without a delta) in place
AfterAnalyze_DropFirst(df) ==
    IF IsEmptyFrame(df) THEN df
    ELSE [rows |-> Tail(df.rows), columns |-> df.columns \cup AnalyzeColumns]

\* the frame after analyze_user_patterns: the hour and day_of_week columns are
\* assigned on the caller's frame unless the method returned early
AfterAnalyze(df) ==
    IF IsEmptyFrame(df) THEN df ELSE [df EXCEPT !.columns = @ \cup AnalyzeColumns]

CallExtract ==
    /\ pc = "extract"
    /\ data' = ExtractEvents(readings)
    /\ pc' = "analyze"
    /\ UNCHANGED <<dashboard, rerun, raised, variant, has_statsmodels, readings, analysis, forecast,
                   recommendations, fits, forecast_days, user_ids, user_idx, log>>

CallAnalyze ==
    /\ pc = "analyze"
    /\ analysis' = AnalyzeUserPatterns(UnitUser, data)
    /\ data' = AfterAnalyze(data)
    /\ pc' = "forecast"
    /\ UNCHANGED <<dashboard, rerun, raised, variant, has_statsmodels, readings, forecast,
                   recommendations, fits, forecast_days, user_ids, user_idx, log>>

CallForecast ==
    /\ pc = "forecast"
    /\ \E fd \in 1..MaxForecastDays :
         \E f \in (IF HasEnoughRows(data)
                   THEN FitOutcomes(variant, has_statsmodels, fd) ELSE {NoFits}) :
           /\ forecast' = ForecastConsumption(data, fd, f)
           /\ fits' = f
           /\ forecast_days' = fd
    /\ pc' = "recommend"
    /\ UNCHANGED <<dashboard, rerun, raised, variant, has_statsmodels, readings, data, analysis,
                   recommendations, user_ids, user_idx, log>>

CallRecommend ==
    /\ pc = "recommend"
    /\ recommendations' = GenerateRecommendations(variant, analysis, forecast)
    /\ pc' = "done"
    /\ UNCHANGED <<dashboard, rerun, raised, variant, has_statsmodels, readings, data, analysis, forecast,
                   fits, forecast_days, user_ids, user_idx, log>>

\* analyze_user_patterns called a second time, on the frame the first call
\* has already processed
CallAnalyzeAgain ==
    /\ pc = "done"
    /\ data # None
    /\ rerun' = [analysis |-> AnalyzeUserPatterns(UnitUser, data), forecast |-> None]
    /\ data' = AfterAnalyze(data)
    /\ pc' = "forecast_again"
    /\ UNCHANGED <<dashboard, raised, variant, has_statsmodels, readings, analysis,
                   forecast, recommendations, fits, forecast_days, user_ids, user_idx, log>>

\* forecast_consumption called a second time on that frame, the fits giving
\* what they gave the first time
CallForecastAgain ==
    /\ pc = "forecast_again"
    /\ rerun' = [rerun EXCEPT !.forecast = ForecastConsumption(data, forecast_days, fits)]
    /\ pc' = "done_again"
    /\ UNCHANGED <<dashboard, raised, variant, has_statsmodels, readings, data, analysis,
                   forecast, recommendations, fits, forecast_days, user_ids, user_idx, log>>

NextUnit == CallExtract \/ CallAnalyze \/ CallForecast \/ CallRecommend

SpecUnit == InitUnit /\ [][NextUnit]_vars

(***************************************************************************)
(* The public methods called on a reading sequence, then                    *)
(* analyze_user_patterns and forecast_consumption called once more on the   *)
(* same frame.                                                              *)
(***************************************************************************)
\* no reading, two readings in the wrong order, the long series, scenario A
TwiceSeqs == {<<>>} \cup DisorderedSeqs \cup LongSeqs \cup ScenarioSeqs

InitTwice ==
    /\ variant \in Variants
    /\ has_statsmodels \in (IF variant = "full" THEN {TRUE} ELSE BOOLEAN)
    /\ readings \in TwiceSeqs
    /\ analysis = None
    /\ forecast = None
    /\ pc = "extract"
    /\ data = None
    /\ recommendations = None
    /\ fits = NoFits
    /\ forecast_days = 0
    /\ user_ids = <<>>
    /\ user_idx = 0
    /\ log = <<>>
    /\ raised = "none"
    /\ dashboard = NewDashboard(variant)
    /\ rerun = None

NextTwice ==
    \/ CallExtract
    \/ CallAnalyze
    \/ CallForecast
    \/ CallRecommend
    \/ CallAnalyzeAgain
    \/ CallForecastAgain

SpecTwice == InitTwice /\ [][NextTwice]_vars

(***************************************************************************)
(* main: the batch loop over the users                                      *)
(***************************************************************************)
NumUsers == 3

MAIN_FORECAST_DAYS == 7

UserId(i) == IF i = 1 THEN "USER_001" ELSE IF i = 2 THEN "USER_002" ELSE "USER_003"

\* what the data source holds for a user: nothing, a short series, a long one
BatchReadings ==
    {<<>>,
     <<[day |-> 0, hour |-> 9, level |-> 0], [day |-> 1, hour |-> 19, level |-> 100]>>,
     Expand(<<[day |-> 0, hour |-> 9, level |-> 0], [day |-> 1, hour |-> 9, level |-> 100]>>,
            PadRows)}

Init ==
    /\ variant \in Variants
    /\ has_statsmodels \in (IF variant = "full" THEN {TRUE} ELSE BOOLEAN)
    /\ user_ids \in [1..NumUsers -> BatchReadings]
    /\ user_idx = 1
    /\ pc = "fetch"
    /\ log = [i \in 1..NumUsers |-> <<>>]
    /\ raised = "none"
    /\ readings = <<>>
    /\ data = None
    /\ analysis = None
    /\ forecast = None
    /\ recommendations = None
    /\ fits = NoFits
    /\ forecast_days = 0
    /\ dashboard = NewDashboard(variant)
    /\ rerun = None

Logged(stage) == [log EXCEPT ![user_idx] = Append(@, stage)]

\* fetch_user_data: the full variant turns a failing fetch into an empty frame
MainFetch ==
    /\ pc = "fetch"
    /\ user_idx <= NumUsers
    /\ readings' = user_ids[user_idx]
    /\ \E fetched \in (IF variant = "full" THEN BOOLEAN ELSE {TRUE}) :
         data' = IF fetched THEN ExtractEvents(user_ids[user_idx]) ELSE EmptyFrame
    /\ log' = Logged(IF IsEmptyFrame(data') THEN "fetch_empty" ELSE "fetch_data")
    /\ pc' = "check"
    /\ UNCHANGED <<dashboard, rerun, raised, variant, has_statsmodels, analysis, forecast, recommendations,
                   fits, forecast_days, user_ids, user_idx>>

\* break instead of continue: the loop ends at the first user without data
MainSkip_Break ==
    /\ pc = "check"
    /\ IsEmptyFrame(data)
    /\ user_idx' = NumUsers + 1
    /\ pc' = "fetch"
    /\ UNCHANGED <<dashboard, rerun, raised, variant, has_statsmodels, readings, data, analysis, forecast,
                   recommendations, fits, forecast_days, user_ids, log>>

\* if data.empty: continue
MainSkip ==
    /\ pc = "check"
    /\ IsEmptyFrame(data)
    /\ user_idx' = user_idx + 1
    /\ pc' = "fetch"
    /\ UNCHANGED <<dashboard, rerun, raised, variant, has_statsmodels, readings, data, analysis, forecast,
                   recommendations, fits, forecast_days, user_ids, log>>

MainAnalyze ==
    /\ pc = "check"
    /\ ~IsEmptyFrame(data)
    /\ analysis' = AnalyzeUserPatterns(UserId(user_idx), data)
    /\ data' = AfterAnalyze(data)
    /\ log' = Logged("analyze")
    /\ pc' = "forecast"
    /\ UNCHANGED <<dashboard, rerun, raised, variant, has_statsmodels, readings, forecast, recommendations,
                   fits, forecast_days, user_ids, user_idx>>

\* the forecast kept in the dashboard's forecasts field and handed out again
\* to the users that follow
MainForecast_Cached ==
    /\ pc = "forecast"
    /\ \E f \in (IF HasEnoughRows(data)
                 THEN FitOutcomes(variant, has_statsmodels, MAIN_FORECAST_DAYS)
                 ELSE {NoFits}) :
         /\ forecast' = IF dashboard.forecasts # EmptyDict THEN dashboard.forecasts.last
                         ELSE ForecastConsumption(data, MAIN_FORECAST_DAYS, f)
         /\ fits' = f
    /\ dashboard' = [dashboard EXCEPT !.forecasts = [last |-> forecast']]
    /\ forecast_days' = MAIN_FORECAST_DAYS
    /\ log' = Logged("forecast")
    /\ pc' = "recommend"
    /\ UNCHANGED <<rerun, raised, variant, has_statsmodels, readings, data, analysis,
                   recommendations, user_ids, user_idx>>

MainForecast ==
    /\ pc = "forecast"
    /\ \E f \in (IF HasEnoughRows(data)
                 THEN FitOutcomes(variant, has_statsmodels, MAIN_FORECAST_DAYS)
                 ELSE {NoFits}) :
         /\ forecast' = ForecastConsumption(data, MAIN_FORECAST_DAYS, f)
         /\ fits' = f
    /\ forecast_days' = MAIN_FORECAST_DAYS
    /\ log' = Logged("forecast")
    /\ pc' = "recommend"
    /\ UNCHANGED <<dashboard, rerun, raised, variant, has_statsmodels, readings, data, analysis,
                   recommendations, user_ids, user_idx>>

MainRecommend ==
    /\ pc = "recommend"
    /\ recommendations' = GenerateRecommendations(variant, analysis, forecast)
    /\ log' = Logged("recommend")
    /\ pc' = "visualize"
    /\ UNCHANGED <<dashboard, rerun, raised, variant, has_statsmodels, readings, data, analysis, forecast,
                   fits, forecast_days, user_ids, user_idx>>

\* the columns visualize_dashboard assigns on the caller's frame
VisualizeColumns == {"day_name"}

MainVisualize ==
    /\ pc = "visualize"
    /\ data' = [data EXCEPT !.columns = @ \cup VisualizeColumns]
    /\ log' = Logged("visualize")
    /\ user_idx' = user_idx + 1
    /\ pc' = "fetch"
    /\ UNCHANGED <<dashboard, rerun, raised, variant, has_statsmodels, readings, analysis, forecast,
                   recommendations, fits, forecast_days, user_ids>>

\* the loop is exhausted
MainDone ==
    /\ pc = "fetch"
    /\ user_idx > NumUsers
    /\ pc' = "done"
    /\ UNCHANGED <<dashboard, rerun, raised, variant, has_statsmodels, readings, data, analysis, forecast,
                   recommendations, fits, forecast_days, user_ids, user_idx, log>>

Next ==
    \/ MainFetch
    \/ MainSkip
    \/ MainAnalyze
    \/ MainForecast
    \/ MainRecommend
    \/ MainVisualize
    \/ MainDone

Spec == Init /\ [][Next]_vars

(***************************************************************************)
(* Properties                                                               *)
(***************************************************************************)
Max0(x) == IF RLt(x, Num(0)) THEN Num(0) ELSE x

\* the methods were called on a reading sequence and the extraction has run
Extracted == data # None

\* C1: for every reading after the first, consumption_ml equals
\* max(0, previous_volume - current_volume) with volume_ml = 10 x level:
\* a drop of d ml gives d, a refill gives 0, and it is never negative.
C1_ConsumptionIsDrop ==
    Extracted =>
        \A i \in 2..Len(data.rows) :
            /\ data.rows[i].consumption_ml
                 = Max0(Num(10 * readings[i - 1].level - 10 * readings[i].level))
            /\ RGe(data.rows[i].consumption_ml, Num(0))

IntakeCategories == {"Increase Intake", "Minor Adjustment", "Great Job!"}

IsIntake(r) == r.category \in IntakeCategories

\* generate_recommendations has returned a recommendation set
Recommended == pc = "done" /\ recommendations # None /\ recommendations # EmptyDict

\* C2: a produced list holds exactly one intake recommendation: HIGH
\* 'Increase Intake' if avg/2000 < 0.7, MEDIUM 'Minor Adjustment' if
\* 0.7 <= avg/2000 < 0.9, INFO 'Great Job!' if avg/2000 >= 0.9.
C2_IntakeRule ==
    Recommended =>
        LET avg == analysis.avg_daily_consumption_ml
            intake == SelectSeq(recommendations.recommendations, IsIntake)
        IN  /\ Len(intake) = 1
            /\ (10 * avg.n < 7 * 2000 * avg.d)
                 <=> (intake[1] = [priority |-> "HIGH", category |-> "Increase Intake"])
            /\ (10 * avg.n >= 7 * 2000 * avg.d /\ 10 * avg.n < 9 * 2000 * avg.d)
                 <=> (intake[1] = [priority |-> "MEDIUM", category |-> "Minor Adjustment"])
            /\ (10 * avg.n >= 9 * 2000 * avg.d)
                 <=> (intake[1] = [priority |-> "INFO", category |-> "Great Job!"])

\* C2 witness: the ratio is exactly 0.7 and the MEDIUM branch fired
C2_Witness ==
    /\ Recommended
    /\ analysis.avg_daily_consumption_ml = Num(1400)
    /\ recommendations.recommendations[1].category = "Minor Adjustment"

\* C3: a non-empty analysis with an empty forecast still yields a
\* recommendation set: the intake recommendation first, no 'Projected
\* Shortfall'.
C3_EmptyForecastStillRecommends ==
    (pc = "done" /\ analysis # EmptyDict /\ IsEmptyFrame(forecast)) =>
        /\ recommendations # EmptyDict
        /\ Len(recommendations.recommendations) >= 1
        /\ IsIntake(recommendations.recommendations[1])
        /\ \A i \in 1..Len(recommendations.recommendations) :
              recommendations.recommendations[i].category # "Projected Shortfall"

\* forecast_consumption has been called on the extracted frame
Forecasted == Extracted /\ pc \in {"recommend", "done"}

LastDay(rd) == CHOOSE d \in {rd[i].day : i \in 1..Len(rd)} : \A i \in 1..Len(rd) : rd[i].day <= d

FlatTier == ~fits.hw.ok /\ ~fits.arima.ok

\* C4: a history that passes the gate gets exactly forecast_days points,
\* whichever fits failed; on the flat-mean tier they are dated on the
\* forecast_days days following the last observed date.
C4_ForecastShape ==
    (Forecasted /\ Len(readings) >= 48) =>
        /\ Len(forecast.rows) = forecast_days
        /\ FlatTier => \A i \in 1..Len(forecast.rows) :
                          forecast.rows[i].date = LastDay(readings) + i

\* C4 witness: both fits failed and a two-day forecast came back
C4_Witness ==
    /\ Forecasted
    /\ Len(readings) >= 48
    /\ variant = "full"
    /\ FlatTier
    /\ forecast_days = 2
    /\ Len(forecast.rows) = 2

\* C5: every point of a returned forecast has lower_bound = 0.8 x and
\* upper_bound = 1.2 x forecasted_consumption_ml, whatever the tier.
C5_Band ==
    Forecasted =>
        \A i \in 1..Len(forecast.rows) :
            LET v == forecast.rows[i].forecasted_consumption_ml
                lo == forecast.rows[i].lower_bound
                up == forecast.rows[i].upper_bound
            IN  /\ 10 * lo.n * v.d = 8 * v.n * lo.d
                /\ 10 * up.n * v.d = 12 * v.n * up.d

\* C5 witness: an ensemble point of 1600 ml with its band
C5_Witness ==
    /\ Forecasted
    /\ ~IsEmptyFrame(forecast)
    /\ fits.hw.ok /\ fits.arima.ok
    /\ forecast.rows[1].forecasted_consumption_ml = Num(1600)
    /\ forecast.rows[1].lower_bound = Num(1280)
    /\ forecast.rows[1].upper_bound = Num(1920)

\* the mean of the daily totals: all consumption over the number of dates
HistoricalMean(df) ==
    RDiv(SumSkipNa([i \in 1..Len(df.rows) |-> df.rows[i].consumption_ml]),
         Num(Cardinality({df.rows[i].date : i \in 1..Len(df.rows)})))

\* C6: both fits succeeded: the point-wise mean of the two; one succeeded:
\* that one alone; none: the historical mean of the daily totals, repeated.
C6_Tiers ==
    (Forecasted /\ ~IsEmptyFrame(forecast)) =>
        \A i \in 1..Len(forecast.rows) :
            LET v == forecast.rows[i].forecasted_consumption_ml IN
            /\ (fits.hw.ok /\ fits.arima.ok)
                 => 2 * v.n = (fits.hw.values[i] + fits.arima.values[i]) * v.d
            /\ (fits.hw.ok /\ ~fits.arima.ok) => v = Num(fits.hw.values[i])
            /\ (~fits.hw.ok /\ fits.arima.ok) => v = Num(fits.arima.values[i])
            /\ FlatTier => v = HistoricalMean(data)

\* C6 witness: the two fits disagree on the first day and the forecast is
\* their mean
C6_Witness ==
    /\ Forecasted
    /\ ~IsEmptyFrame(forecast)
    /\ fits.hw.ok /\ fits.arima.ok
    /\ fits.hw.values = <<1500, 1700>>
    /\ fits.arima.values = <<1700, 1700>>
    /\ forecast.rows[1].forecasted_consumption_ml = Num(1600)
    /\ forecast.rows[2].forecasted_consumption_ml = Num(1700)

\* the number of calendar days the readings cover
DaysCovered(rd) == Cardinality({rd[i].day : i \in 1..Len(rd)})

\* C7: no forecast exactly when the readings cover fewer than 2 days.
C7_TwoDaysOfHistory ==
    Forecasted => (IsEmptyFrame(forecast) <=> DaysCovered(readings) < 2)

\* analyze_user_patterns has been called on an empty sample set
AnalyzedEmpty == Extracted /\ pc \in {"forecast", "recommend", "done"} /\ data.rows = <<>>

AllStages == <<"fetch_data", "analyze", "forecast", "recommend", "visualize">>

\* C9: in the batch loop a user without data has no stage run after the
\* fetch, no error reaches the caller, and the other users, later ones
\* included, go through all stages.
C9_EmptyUserSkipped ==
    /\ raised = "none"
    /\ \A i \in 1..NumUsers :
          (i < user_idx) =>
              /\ log[i] \in {<<"fetch_empty">>, AllStages}
              /\ user_ids[i] = <<>> => log[i] = <<"fetch_empty">>
              /\ (user_ids[i] # <<>> /\ variant = "lite") => log[i] = AllStages

\* C9 witness: the loop is over, the first user had no data and the last
\* user went through all stages
C9_Witness ==
    /\ pc = "done"
    /\ user_ids[1] = <<>>
    /\ log[1] = <<"fetch_empty">>
    /\ log[NumUsers] = AllStages

RuleRank(category) ==
    IF category \in IntakeCategories THEN 1
    ELSE IF category = "Improve Consistency" THEN 2
    ELSE IF category = "Timing Optimization" THEN 3
    ELSE IF category = "Projected Shortfall" THEN 4
    ELSE 0

\* C10: the list has 1 to 4 entries in the rule order intake, consistency,
\* timing, shortfall, the intake entry first, at most one entry per rule.
C10_RuleOrder ==
    Recommended =>
        LET rs == recommendations.recommendations IN
        /\ Len(rs) \in 1..4
        /\ RuleRank(rs[1].category) = 1
        /\ \A i \in 1..Len(rs) : \A j \in 1..Len(rs) :
              i < j => RuleRank(rs[i].category) < RuleRank(rs[j].category)

\* C10 witness: all four rules fired, the LOW entry before the last MEDIUM one
C10_Witness ==
    /\ Recommended
    /\ Len(recommendations.recommendations) = 4
    /\ recommendations.recommendations[3].priority = "LOW"
    /\ recommendations.recommendations[4].priority = "MEDIUM"

HasCategory(r, category) == r.category = category

\* the entries of the produced list that carry the category
Entries(category) ==
    SelectSeq(recommendations.recommendations, LAMBDA r : HasCategory(r, category))

\* 1 - sgn * sqrt(q) < 0.7, that is sgn * sqrt(q) > 0.3
BelowConsistencyThreshold(s) ==
    s.sgn = 1 /\ (s.q.d = 0 \/ 100 * s.q.n > 9 * s.q.d)

\* C11: a produced list holds the MEDIUM 'Improve Consistency' entry if and
\* only if consistency_score < 0.7 (a score of exactly 0.7 does not fire),
\* and never more than one.
C11_ConsistencyRule ==
    Recommended =>
        LET es == Entries("Improve Consistency") IN
        /\ Len(es) = (IF BelowConsistencyThreshold(analysis.consistency_score) THEN 1 ELSE 0)
        /\ \A i \in 1..Len(es) : es[i].priority = "MEDIUM"

\* C11 witness: the score is exactly 0.7 and the rule did not fire, in a list
\* that was produced
C11_Witness ==
    /\ Recommended
    /\ analysis.consistency_score = [sgn |-> 1, q |-> Rat(9, 100)]
    /\ Len(Entries("Improve Consistency")) = 0

\* C12: in every variant a produced list holds the LOW 'Timing Optimization'
\* entry if and only if peak_hydration_hour > 18 (18 itself does not fire),
\* and never more than one.
C12_TimingRule ==
    Recommended =>
        LET es == Entries("Timing Optimization") IN
        /\ Len(es) = (IF analysis.peak_hydration_hour > 18 THEN 1 ELSE 0)
        /\ \A i \in 1..Len(es) : es[i].priority = "LOW"

\* the mean of the forecast points, cross-multiplied: sum < 1600 * count
ForecastBelow1600 ==
    LET n == Len(forecast.rows)
        total == SumSkipNa([i \in 1..n |-> forecast.rows[i].forecasted_consumption_ml])
    IN  n > 0 /\ total.n < 1600 * n * total.d

\* C13: in every variant a produced list holds the MEDIUM 'Projected
\* Shortfall' entry if and only if the forecast is non-empty and its mean
\* forecasted_consumption_ml is below 1600 (exactly 1600 does not fire), and
\* never more than one.
C13_ShortfallRule ==
    Recommended =>
        LET es == Entries("Projected Shortfall") IN
        /\ Len(es) = (IF ForecastBelow1600 THEN 1 ELSE 0)
        /\ \A i \in 1..Len(es) : es[i].priority = "MEDIUM"

\* C14: the summary carries the analysis' average as current_daily_avg_ml,
\* 2000 as recommended_daily_ml, average / 2000 as performance_ratio, and
\* meeting_goal is true exactly when the ratio is >= 0.9, which is exactly
\* when the intake entry is INFO 'Great Job!'.
C14_Summary ==
    Recommended =>
        LET avg == analysis.avg_daily_consumption_ml
            ratio == recommendations.performance_ratio
        IN  /\ recommendations.current_daily_avg_ml = avg
            /\ recommendations.recommended_daily_ml = 2000
            /\ ratio.d > 0
            /\ ratio.n * 2000 * avg.d = avg.n * ratio.d
            /\ recommendations.meeting_goal <=> (10 * ratio.n >= 9 * ratio.d)
            /\ recommendations.meeting_goal
                  <=> (recommendations.recommendations[1]
                         = [priority |-> "INFO", category |-> "Great Job!"])

\* C14 witness: the average is 1800, the ratio exactly 0.9, the goal met
C14_Witness ==
    /\ Recommended
    /\ analysis.avg_daily_consumption_ml = Num(1800)
    /\ recommendations.performance_ratio = Rat(9, 10)
    /\ recommendations.meeting_goal

Analyzed == Extracted /\ analysis # None /\ analysis # EmptyDict

SampleDates == {data.rows[i].date : i \in 1..Len(data.rows)}

\* the day's total: the sum of the consumption_ml of the samples of date d
DayTotal(d) ==
    LET rs == SelectSeq(data.rows, LAMBDA r : r.date = d)
    IN  SumSkipNa([i \in 1..Len(rs) |-> rs[i].consumption_ml])

\* C16: for every non-empty sample set built by the event extraction,
\* whatever the number of days (a single day included), consistency_score
\* is at most 1, and it is exactly 1 when all days have the same total.
C16_ConsistencyAtMostOne ==
    Analyzed =>
        LET s == analysis.consistency_score IN
        /\ ~IsNaN(s.q) /\ s.sgn >= 0
        /\ (\A d1 \in SampleDates : \A d2 \in SampleDates : DayTotal(d1) = DayTotal(d2))
              => (s.sgn = 0 /\ s.q = Num(0))

\* the score is a finite number
FiniteScore(s) == s.q.d > 0

\* C17: when the mean of the daily totals is exactly 0, the analysis does
\* not carry the silent result of std / 0 (NaN or an infinity): the score
\* is a finite sentinel, or the undefined case is signalled by an error.
C17_ZeroMeanGuarded ==
    (Analyzed /\ analysis.avg_daily_consumption_ml = Num(0)) =>
        (FiniteScore(analysis.consistency_score) \/ raised # "none")

SampleHours == {data.rows[i].hour : i \in 1..Len(data.rows)}

SampleWeekdays == {data.rows[i].day % 7 : i \in 1..Len(data.rows)}

\* the summed consumption_ml of the samples taken at hour h
HourTotal(h) ==
    LET rs == SelectSeq(data.rows, LAMBDA r : r.hour = h)
    IN  SumSkipNa([i \in 1..Len(rs) |-> rs[i].consumption_ml])

\* the summed consumption_ml of the samples taken on weekday w (0 = Monday)
WeekdayTotal(w) ==
    LET rs == SelectSeq(data.rows, LAMBDA r : r.day % 7 = w)
    IN  SumSkipNa([i \in 1..Len(rs) |-> rs[i].consumption_ml])

\* C18: peak_hydration_hour is the hour (0-23) of the samples whose summed
\* consumption_ml is maximal, peak_hydration_day the weekday (0 = Monday
\* .. 6 = Sunday) whose sum is maximal; among tied maxima the smallest
\* index wins.
C18_PeakIsArgmax ==
    Analyzed =>
        LET ph == analysis.peak_hydration_hour
            pd == analysis.peak_hydration_day
        IN  /\ ph \in SampleHours /\ ph \in 0..23
            /\ \A h \in SampleHours :
                  /\ RLe(HourTotal(h), HourTotal(ph))
                  /\ h < ph => RLt(HourTotal(h), HourTotal(ph))
            /\ pd \in SampleWeekdays /\ pd \in 0..6
            /\ \A w \in SampleWeekdays :
                  /\ RLe(WeekdayTotal(w), WeekdayTotal(pd))
                  /\ w < pd => RLt(WeekdayTotal(w), WeekdayTotal(pd))

\* C18 witness: two hours and two weekdays tie for the maximum and the
\* smaller index of each was reported
C18_Witness ==
    /\ Analyzed
    /\ SampleHours = {9, 19} /\ HourTotal(9) = HourTotal(19)
    /\ analysis.peak_hydration_hour = 9
    /\ {0, 1} \subseteq SampleWeekdays /\ WeekdayTotal(0) = WeekdayTotal(1)
    /\ analysis.peak_hydration_day = 0

\* the timestamps of the reading sequence never go back
NonDecreasing(rd) == \A i \in 1..(Len(rd) - 1) : ~TimeLt(rd[i + 1], rd[i])

\* C19: given a reading sequence whose timestamps are not monotonically
\* non-decreasing, the event extraction fails with OrderingError and hands
\* no samples to its caller: no deltas are computed over the out-of-order
\* readings.
C19_OrderingError ==
    (pc # "extract" /\ ~NonDecreasing(readings)) =>
        (raised = "OrderingError" /\ data = None)

\* the pipeline has run to its end on scenario A
ScenarioDone == pc = "done" /\ readings \in ScenarioSeqs

\* C20: on scenario A (three days, the level dropping by 2000 ml on each
\* day, with refills) the pipeline gives avg_daily_consumption_ml = 2000,
\* consistency_score = 1, meeting_goal true and the intake category
\* 'Great Job!'.
C20_ScenarioA ==
    ScenarioDone =>
        /\ analysis # EmptyDict
        /\ analysis.avg_daily_consumption_ml = Num(2000)
        /\ analysis.consistency_score = [sgn |-> 0, q |-> Num(0)]
        /\ recommendations # EmptyDict
        /\ recommendations.meeting_goal
        /\ recommendations.recommendations[1].category = "Great Job!"

\* both methods have been called a second time on the same frame
RanTwice == pc = "done_again"

\* C21: analyze_user_patterns and forecast_consumption run a second time on
\* the same readings (on the frame the first run has already processed, the
\* fits giving the same outcomes) return the same analysis and the same
\* sequence of forecast points as the first time.
C21_Idempotent ==
    RanTwice => (rerun.analysis = analysis /\ rerun.forecast = forecast)

\* C21 witness: both runs of a series that passes the forecast gate by one
\* row gave a non-empty analysis and a non-empty forecast
C21_Witness ==
    /\ RanTwice
    /\ Len(data.rows) = MIN_ROWS
    /\ rerun.analysis # EmptyDict /\ analysis # EmptyDict
    /\ ~IsEmptyFrame(rerun.forecast) /\ ~IsEmptyFrame(forecast)

\* C22: analyze_user_patterns reads its input only: after the call the
\* samples have exactly the fields and values the event extraction gave
\* them, nothing added, removed or altered.
C22_AnalyzeReadOnly ==
    (Extracted /\ pc # "analyze") => data = ExtractEvents(readings)

\* the dashboard object is as __init__ left it
SharedFieldsUntouched == dashboard = NewDashboard(variant)

\* what the stages give for user i on its own: the fetched samples, and the
\* analysis, forecast (under the fit outcomes f) and recommendations
OwnData(i) == AfterAnalyze(ExtractEvents(user_ids[i]))

OwnAnalysis(i) == AnalyzeUserPatterns(UserId(i), ExtractEvents(user_ids[i]))

OwnForecast(i, f) == ForecastConsumption(OwnData(i), MAIN_FORECAST_DAYS, f)

OwnRecommendations(i, f) ==
    GenerateRecommendations(variant, OwnAnalysis(i), OwnForecast(i, f))

\* C23: no stage writes the dashboard's shared fields (users_data,
\* forecasts, devices_data), and what is computed for a user is what its
\* own readings give, whichever users were processed before it.
C23_Stateless ==
    /\ SharedFieldsUntouched
    /\ (user_idx \in 1..NumUsers /\ pc \in {"forecast", "recommend", "visualize"})
          => analysis = OwnAnalysis(user_idx)
    /\ (user_idx \in 1..NumUsers /\ pc \in {"recommend", "visualize"})
          => forecast = OwnForecast(user_idx, fits)
    /\ (user_idx \in 1..NumUsers /\ pc = "visualize")
          => recommendations = OwnRecommendations(user_idx, fits)

\* C23 witness: the third user has its recommendations after two users
\* with different data went through all stages before it
C23_Witness ==
    /\ user_idx = NumUsers /\ pc = "visualize"
    /\ log[1] = AllStages /\ log[2] = AllStages
    /\ user_ids[1] # user_ids[2] /\ user_ids[2] # user_ids[3]
    /\ recommendations # EmptyDict

\* C24: every point of every forecast returned for a series the event
\* extraction produced, on whatever tier, has
\* lower_bound <= forecasted_consumption_ml <= upper_bound.
C24_BandBrackets ==
    Forecasted =>
        \A i \in 1..Len(forecast.rows) :
            /\ RLe(forecast.rows[i].lower_bound, forecast.rows[i].forecasted_consumption_ml)
            /\ RLe(forecast.rows[i].forecasted_consumption_ml, forecast.rows[i].upper_bound)

====
